---- MODULE Spec2Model ----
(***************************************************************************)
(* Model of the Tenderly plugin class (src/unnamed/part_001): the request  *)
(* assembler (getContracts / getContractData / filterContracts) and the    *)
(* transport operations verify and push.  resolveDependencies (./util) and *)
(* NetworkMap (./index) are imported by the class but their source is not  *)
(* part of the tree; they follow the natural-language specification.       *)
(***************************************************************************)
EXTENDS Integers, Sequences, FiniteSets, TLC

VARIABLES
  imports,         \* the host's dependency graph: file -> the files it imports
  hardhatNetwork,  \* this.env.hardhatArguments.network
  project,         \* this.env.config.tenderly.project
  username,        \* this.env.config.tenderly.username
  inv,             \* the invocations of verify and push, each with its locals
  walk             \* a call of resolveDependencies taken step by step

vars == <<imports, hardhatNetwork, project, username, inv, walk>>

(***************************************************************************)
(* Values                                                                  *)
(***************************************************************************)

\* JavaScript undefined, kept apart from every string of the model, and null
\* where a request is expected (a record with none of a request's fields).
Undefined == "<undefined>"
Null == [null |-> TRUE]

\* A source name such as "contracts/Token.sol" is kept split: a sequence of
\* "/"-separated segments, each a sequence of "."-separated pieces.
TokenSol == << <<"contracts">>, <<"Token", "sol">> >>
LibSol == << <<"contracts">>, <<"Lib", "sol">> >>
TokenAlt == << <<"lib">>, <<"Token", "sol">> >>

\* data._resolvedFiles, in the iteration order of the host's Map.
ResolvedFiles == <<TokenSol, LibSol, TokenAlt>>
Files == {ResolvedFiles[k] : k \in 1..Len(ResolvedFiles)}

\* resolvedFile.content.rawContent
RawContent(path) == <<"raw", path>>

\* this.env.config.solidity.compilers[0].version
SolcVersion == "0.8.0"

\* Bounds of the model.
MaxContracts == 2

\* The concurrent invocations of the public operations.
Invocations == {1, 2}

\* sourcePath.split("/").slice(-1)[0].split(".")[0]
ShortName(path) == path[Len(path)][1]

\* String.prototype.toLowerCase on the strings of the model.
ToLowerCase(s) ==
  CASE s = "Ropsten" -> "ropsten"
    [] s = "Mainnet" -> "mainnet"
    [] OTHER -> s

\* The fixed network identifier table.
NetworkMap == [n \in {"mainnet", "ropsten"} |-> IF n = "mainnet" THEN "1" ELSE "3"]

\* NetworkMap[name] used as a computed property key: a missing property reads
\* as undefined, and the key of { [undefined]: v } is the string "undefined".
NetworkKey(name) ==
  IF name \in DOMAIN NetworkMap THEN NetworkMap[name] ELSE "undefined"

(***************************************************************************)
(* Inputs                                                                  *)
(***************************************************************************)

\* hardhatArguments.network
ArgNetworks == {Undefined, "", "hardhat", "Mainnet"}
\* ContractByName.network
ContractNetworks == {Undefined, "Ropsten", "foonet"}
ContractNames == {"Token", "Lib", "Ghost"}
\* The k-th contract of a call is deployed at the k-th address.
Address(k) == <<"0x", k>>

\* The contract lists of length n over the given names and networks.
RECURSIVE ListsOfLen(_, _, _)
ListsOfLen(n, names, nets) ==
  IF n = 0 THEN {<<>>}
  ELSE {Append(l, [name |-> nm, address |-> Address(n), network |-> nw]) :
          l \in ListsOfLen(n - 1, names, nets), nm \in names, nw \in nets}

ContractLists(names, nets) ==
  UNION {ListsOfLen(n, names, nets) : n \in 0..MaxContracts}

\* The dependency graphs: for every file the set of files it imports.
AllGraphs == [Files -> SUBSET Files]
Graphs == {g \in AllGraphs : \A p \in Files : p \notin g[p]}
NoImports == [p \in Files |-> {}]
Diamond ==
  [p \in Files |-> IF p = TokenSol THEN {LibSol, TokenAlt}
                   ELSE IF p = LibSol THEN {TokenAlt} ELSE {}]
Cycle ==
  [p \in Files |-> IF p = TokenSol THEN {LibSol}
                   ELSE IF p = LibSol THEN {TokenSol} ELSE {}]
SampleGraphs == {NoImports, Diamond, Cycle}

\* _dependenciesPerFile.get(path), in iteration order.
RECURSIVE ImportsFrom(_, _, _)
ImportsFrom(g, path, k) ==
  IF k > Len(ResolvedFiles) THEN <<>>
  ELSE (IF ResolvedFiles[k] \in g[path] THEN <<ResolvedFiles[k]>> ELSE <<>>)
       \o ImportsFrom(g, path, k + 1)
ImportsSeq(g, path) == ImportsFrom(g, path, 1)

(***************************************************************************)
(* Metadata and the dependency resolver                                    *)
(***************************************************************************)

\* metadata.sources is a JavaScript object: a mapping that keeps its keys in
\* insertion order.  It is a sequence of [path, content] without repeated path.
Paths(sources) == {sources[k].path : k \in 1..Len(sources)}

\* A mutation of Put: sources kept as a list that is appended to.
PutAlways(sources, path, content) ==
  Append(sources, [path |-> path, content |-> content])

\* metadata.sources[path] = { content }: a present key keeps its place.
Put(sources, path, content) ==
  IF path \in Paths(sources)
  THEN [k \in 1..Len(sources) |->
          IF sources[k].path = path
          THEN [path |-> path, content |-> content] ELSE sources[k]]
  ELSE Append(sources, [path |-> path, content |-> content])

\* resolveDependencies(data, sourcePath, metadata, visited) as a machine with
\* an explicit call stack.  A frame is a call: its path and the index of the
\* next import to descend into (0: the call has not looked at visited yet).
\* visits counts the visits of every node, calls and steps the work done.
IdleWalk ==
  [stack |-> <<>>, visited |-> {}, sources |-> <<>>,
   visits |-> [p \in Files |-> 0], calls |-> 0, steps |-> 0]

\* The call resolveDependencies(data, path, metadata, visited) with
\* metadata.sources = sources and an empty visited-set.
StartWalk(path, sources) ==
  [IdleWalk EXCEPT !.stack = <<[path |-> path, next |-> 0]>>,
                   !.sources = sources, !.calls = 1]

Pop(stack) == SubSeq(stack, 1, Len(stack) - 1)

\* A mutation of AlreadyVisited: the visited-set is never consulted.
NeverVisited(w, path) == FALSE

\* "skipping any path already present in the visited-set"
AlreadyVisited(w, path) == path \in w.visited

\* One step of the walk over graph g.
ResolveStep(g, w) ==
  LET top == w.stack[Len(w.stack)]
      deps == ImportsSeq(g, top.path)
      counted == [w EXCEPT !.steps = @ + 1]
  IN  IF top.next = 0
      THEN IF AlreadyVisited(w, top.path)
           THEN [counted EXCEPT !.stack = Pop(@)]
           ELSE [counted EXCEPT
                   !.visited = @ \cup {top.path},
                   !.sources = Put(@, top.path, RawContent(top.path)),
                   !.visits[top.path] = @ + 1,
                   !.stack[Len(w.stack)].next = 1]
      ELSE IF top.next > Len(deps)
           THEN [counted EXCEPT !.stack = Pop(@)]
           ELSE [counted EXCEPT
                   !.calls = @ + 1,
                   !.stack = Append([@ EXCEPT ![Len(w.stack)].next = top.next + 1],
                                    [path |-> deps[top.next], next |-> 0])]

\* The walk run to its return.
RECURSIVE ResolveRun(_, _)
ResolveRun(g, w) ==
  IF w.stack = <<>> THEN w ELSE ResolveRun(g, ResolveStep(g, w))

\* resolveDependencies as the caller sees it: metadata.sources afterwards.
ResolveDependencies(g, path, sources) ==
  ResolveRun(g, StartWalk(path, sources)).sources

(***************************************************************************)
(* getContracts and getContractData                                        *)
(***************************************************************************)

\* networks: {}
NoNetworks == <<>>

\* A mutation of VisitMatch: the matched file alone, without its imports.
VisitMatchShallow(g, path, sources) == Put(sources, path, RawContent(path))

\* The body of the inner loop for a contract whose name matches: the file is
\* put into metadata.sources and its dependencies are resolved with a fresh
\* visited-set.
VisitMatch(g, path, sources) ==
  ResolveDependencies(g, path, Put(sources, path, RawContent(path)))

\* for (contract of flatContracts) over one resolved file, from contract j on.
RECURSIVE MatchLoop(_, _, _, _, _)
MatchLoop(g, flat, path, j, sources) ==
  IF j > Len(flat) THEN sources
  ELSE MatchLoop(g, flat, path, j + 1,
                 IF flat[j].name # ShortName(path) THEN sources
                 ELSE VisitMatch(g, path, sources))

\* data._resolvedFiles.forEach(...), from file k on.
RECURSIVE FileLoop(_, _, _, _)
FileLoop(g, flat, k, sources) ==
  IF k > Len(ResolvedFiles) THEN sources
  ELSE FileLoop(g, flat, k + 1, MatchLoop(g, flat, ResolvedFiles[k], 1, sources))

\* const metadata = { compiler, sources: {} }
FreshSources == <<>>

\* A mutation of FreshRequestContracts: one array shared by the invocations,
\* holding what an earlier invocation pushed.
StaleRequestContracts ==
  IF \E j \in Invocations : inv[j].requestData # Null
  THEN inv[CHOOSE j \in Invocations : inv[j].requestData # Null].requestData.contracts
  ELSE <<>>

\* const requestContracts: TenderlyContract[] = []
FreshRequestContracts == <<>>

\* contractToPush for one entry of metadata.sources.
ToContract(entry) ==
  [contractName |-> ShortName(entry.path),
   source |-> entry.content,
   sourcePath |-> entry.path,
   networks |-> NoNetworks,
   compiler |-> [name |-> "solc", version |-> SolcVersion]]

\* for (const [key, value] of Object.entries(metadata.sources)) push(...)
PushContracts(requestContracts, sources) ==
  requestContracts \o [k \in 1..Len(sources) |-> ToContract(sources[k])]

\* metadata.sources when the forEach over the resolved files has ended.
CollectSources(g, flat) == FileLoop(g, flat, 1, FreshSources)

GetContracts(g, flat) ==
  PushContracts(FreshRequestContracts, CollectSources(g, flat))

\* newCompilerConfig(this.env.config)
NewCompilerConfig == [compiler_version |-> SolcVersion]

GetContractData(g, flat) ==
  [contracts |-> GetContracts(g, flat), config |-> NewCompilerConfig]

(***************************************************************************)
(* filterContracts                                                         *)
(***************************************************************************)

\* A value that || keeps.
Truthy(v) == v \notin {Undefined, ""}

\* A mutation of ResolveNetwork: the "hardhat" sentinel is not recognised.
ResolveNetworkNoSentinel(arg, contract) ==
  IF Truthy(arg) THEN arg ELSE contract.network

\* const network = arg !== "hardhat" ? arg || contract.network : contract.network
ResolveNetwork(arg, contract) ==
  IF arg # "hardhat"
  THEN (IF Truthy(arg) THEN arg ELSE contract.network)
  ELSE contract.network

\* requestData.contracts.findIndex(c => c.contractName === name), 1-based;
\* 0 stands for -1.
FindIndex(contracts, name) ==
  IF \E k \in 1..Len(contracts) : contracts[k].contractName = name
  THEN CHOOSE k \in 1..Len(contracts) :
         /\ contracts[k].contractName = name
         /\ \A m \in 1..(k - 1) : contracts[m].contractName # name
  ELSE 0

\* A mutation of AttachNetworks: the key is added to the mapping there is.
MergeNetworks(networks, key, address) ==
  (key :> [address |-> address]) @@ networks

\* requestData.contracts[index].networks = { [key]: { address } }
AttachNetworks(networks, key, address) == key :> [address |-> address]

ErrNetwork == "Error: Please provide a network"

RECURSIVE FilterLoop(_, _, _, _)

\* A mutation of AbortNoNetwork: the contract is skipped and the loop goes on.
SkipNoNetwork(arg, flat, k, st) ==
  FilterLoop(arg, flat, k + 1, [st EXCEPT !.logs = Append(@, ErrNetwork)])

\* if (network === undefined) { console.log(...); return null; }
AbortNoNetwork(arg, flat, k, st) ==
  [st EXCEPT !.logs = Append(@, ErrNetwork), !.request = Null]

\* for (contract of flatContracts), from contract k on.  st holds requestData
\* (request), the lines logged and, as a record of the run, the value of the
\* local network in every iteration (resolved).
FilterLoop(arg, flat, k, st) ==
  IF k > Len(flat) THEN st
  ELSE LET contract == flat[k]
           network == ResolveNetwork(arg, contract)
           seen == [st EXCEPT !.resolved = Append(@, network)]
           index == FindIndex(st.request.contracts, contract.name)
       IN  IF network = Undefined THEN AbortNoNetwork(arg, flat, k, seen)
           ELSE IF index = 0 THEN FilterLoop(arg, flat, k + 1, seen)
           ELSE FilterLoop(arg, flat, k + 1,
                  [seen EXCEPT !.request.contracts[index].networks =
                     AttachNetworks(@, NetworkKey(ToLowerCase(network)),
                                    contract.address)])

\* filterContracts after getContractData has returned requestData.
FilterContracts(arg, flat, requestData, logs) ==
  FilterLoop(arg, flat, 1, [request |-> requestData, logs |-> logs, resolved |-> <<>>])

(***************************************************************************)
(* verify and push                                                         *)
(***************************************************************************)

\* The locals of one invocation.  pc is the await it is suspended at: "graph"
\* (the host's compile tasks), "assembled" (getContracts has returned),
\* "filtered" (filterContracts has returned), "remote" (the TenderlyService
\* call).  logs are the lines it wrote with console.log, remoteCalls the
\* calls it made to TenderlyService, remote the result of the last one and
\* outcome how the invocation ended: "returned" or "threw".  metadata keeps
\* the metadata.sources that getContracts built and dropped on return.
IdleInvocation ==
  [pc |-> "idle", op |-> "none", flat |-> <<>>, metadata |-> <<>>,
   requestData |-> Null, resolved |-> <<>>, logs |-> <<>>, remoteCalls |-> 0,
   remote |-> "none", outcome |-> "pending"]

ErrProject == "Error: Please provide the project field"
ErrUsername == "Error: Please provide the username field"
ErrMessage == "err.message"

\* verify(...contracts) / push(...contracts) up to the first await.
Called(s, o, list) == [s EXCEPT !.pc = "graph", !.op = o, !.flat = list]

\* getContractData: the compile tasks have answered with graph g.
Assembled(s, g) ==
  [s EXCEPT !.pc = "assembled", !.metadata = CollectSources(g, s.flat),
            !.requestData = GetContractData(g, s.flat)]

\* The loop of filterContracts and its return.
Filtered(s, arg) ==
  LET r == FilterContracts(arg, s.flat, s.requestData, s.logs)
  IN  [s EXCEPT !.pc = "filtered", !.requestData = r.request,
                !.logs = r.logs, !.resolved = r.resolved]

Finish(s, line) ==
  [s EXCEPT !.pc = "done", !.outcome = "returned", !.logs = Append(@, line)]

CallRemote(s) == [s EXCEPT !.pc = "remote", !.remoteCalls = @ + 1]

\* verify after await this.filterContracts(flatContracts).
VerifyAfterFilter(s) ==
  IF s.requestData = Null THEN Finish(s, "Verification failed")
  ELSE CallRemote(s)

\* push after await this.filterContracts(flatContracts).
PushAfterFilter(s, proj, user) ==
  IF proj = Undefined THEN Finish(s, ErrProject)
  ELSE IF user = Undefined THEN Finish(s, ErrUsername)
  ELSE IF s.requestData = Null THEN Finish(s, "Push failed")
  ELSE CallRemote(s)

\* The awaited TenderlyService call resolves.
OnTransportSuccess(s) ==
  [s EXCEPT !.pc = "done", !.outcome = "returned", !.remote = "ok"]

\* A mutation of OnTransportError: no catch, the rejection reaches the caller.
RethrowTransportError(s) ==
  [s EXCEPT !.pc = "done", !.outcome = "threw", !.remote = "failed"]

\* The awaited TenderlyService call rejects: catch (err) { console.log(err.message) }
OnTransportError(s) ==
  [Finish(s, ErrMessage) EXCEPT !.remote = "failed"]

(***************************************************************************)
(* Actions                                                                 *)
(***************************************************************************)

EnvUnchanged == UNCHANGED <<imports, hardhatNetwork, project, username>>

Call(i, o, list) ==
  /\ inv[i].pc = "idle"
  /\ \A j \in Invocations : j < i => inv[j].pc # "idle"
  /\ inv' = [inv EXCEPT ![i] = Called(@, o, list)]
  /\ EnvUnchanged /\ UNCHANGED walk

Assemble(i) ==
  /\ inv[i].pc = "graph"
  /\ inv' = [inv EXCEPT ![i] = Assembled(@, imports)]
  /\ EnvUnchanged /\ UNCHANGED walk

Filter(i) ==
  /\ inv[i].pc = "assembled"
  /\ inv' = [inv EXCEPT ![i] = Filtered(@, hardhatNetwork)]
  /\ EnvUnchanged /\ UNCHANGED walk

VerifyDispatch(i) ==
  /\ inv[i].pc = "filtered" /\ inv[i].op = "verify"
  /\ inv' = [inv EXCEPT ![i] = VerifyAfterFilter(@)]
  /\ EnvUnchanged /\ UNCHANGED walk

PushDispatch(i) ==
  /\ inv[i].pc = "filtered" /\ inv[i].op = "push"
  /\ inv' = [inv EXCEPT ![i] = PushAfterFilter(@, project, username)]
  /\ EnvUnchanged /\ UNCHANGED walk

RemoteReturns(i) ==
  /\ inv[i].pc = "remote"
  /\ inv' = [inv EXCEPT ![i] = OnTransportSuccess(@)]
  /\ EnvUnchanged /\ UNCHANGED walk

RemoteFails(i) ==
  /\ inv[i].pc = "remote"
  /\ inv' = [inv EXCEPT ![i] = OnTransportError(@)]
  /\ EnvUnchanged /\ UNCHANGED walk

\* resolveDependencies is called on path, which its caller has just put into
\* metadata.sources.
ResolveCall(path) ==
  /\ walk.calls = 0
  /\ walk' = StartWalk(path, Put(FreshSources, path, RawContent(path)))
  /\ EnvUnchanged /\ UNCHANGED inv

ResolveAdvance ==
  /\ walk.stack # <<>>
  /\ walk' = ResolveStep(imports, walk)
  /\ EnvUnchanged /\ UNCHANGED inv

(***************************************************************************)
(* Specifications                                                          *)
(***************************************************************************)

Operations == {"verify", "push"}

\* Spec: verify and push, invoked concurrently.
CallLists == ContractLists({"Token"}, {Undefined, "Ropsten"})

Init ==
  /\ imports \in SampleGraphs
  /\ hardhatNetwork \in ArgNetworks
  /\ project \in {Undefined, "project"}
  /\ username \in {Undefined, "username"}
  /\ inv = [i \in Invocations |-> IdleInvocation]
  /\ walk = IdleWalk

Next ==
  \E i \in Invocations :
    \/ \E o \in Operations, list \in CallLists : Call(i, o, list)
    \/ Assemble(i)
    \/ Filter(i)
    \/ VerifyDispatch(i)
    \/ PushDispatch(i)
    \/ RemoteReturns(i)
    \/ RemoteFails(i)

Spec == Init /\ [][Next]_vars

\* SpecAssemble: one run of the request assembler over every graph and list.
InitAssemble ==
  /\ imports \in Graphs
  /\ hardhatNetwork \in ArgNetworks
  /\ project = "project"
  /\ username = "username"
  /\ inv = [i \in Invocations |-> IdleInvocation]
  /\ walk = IdleWalk

NextAssemble ==
  \/ \E list \in ContractLists(ContractNames, ContractNetworks) :
       Call(1, "verify", list)
  \/ Assemble(1)
  \/ Filter(1)

SpecAssemble == InitAssemble /\ [][NextAssemble]_vars

\* SpecResolve: one call of resolveDependencies, step by step, on any graph.
InitResolve ==
  /\ imports \in AllGraphs
  /\ hardhatNetwork = Undefined
  /\ project = "project"
  /\ username = "username"
  /\ inv = [i \in Invocations |-> IdleInvocation]
  /\ walk = IdleWalk

NextResolve ==
  \/ \E path \in Files : ResolveCall(path)
  \/ ResolveAdvance

SpecResolve == InitResolve /\ [][NextResolve]_vars

(***************************************************************************)
(* Properties                                                              *)
(***************************************************************************)

\* The invocations whose getContracts, resp. filterContracts, has returned.
AssembledPcs == {"assembled", "filtered", "remote", "done"}
FilteredPcs == {"filtered", "remote", "done"}

\* The network argument counts as set when it holds a non-empty name.
ArgumentSet == hardhatNetwork \notin {Undefined, ""}

\* A contract with no resolvable network: it declares none and the argument
\* is unset or the "hardhat" sentinel.
Unresolvable(contract) ==
  /\ contract.network = Undefined
  /\ ~ArgumentSet \/ hardhatNetwork = "hardhat"

Requested(flat) == {flat[k].name : k \in 1..Len(flat)}
MatchedFiles(flat) == {p \in Files : ShortName(p) \in Requested(flat)}

\* The files reachable from the set S along the import edges of g.
RECURSIVE Reach(_, _)
Reach(g, S) ==
  LET T == S \cup UNION {g[p] : p \in S}
  IN  IF T = S THEN S ELSE Reach(g, T)

\* C1: for a non-empty list in which some contract has no resolvable network,
\* filterContracts returns null and the invocation never calls the service.
C1_AllOrNothing ==
  \A i \in Invocations :
    (/\ inv[i].pc \in FilteredPcs
     /\ \E k \in 1..Len(inv[i].flat) : Unresolvable(inv[i].flat[k]))
    => /\ inv[i].requestData = Null
       /\ inv[i].remoteCalls = 0

\* A finished invocation over a list whose first contract has a network and
\* whose second has none.
C1_Witness ==
  \E i \in Invocations :
    /\ inv[i].pc = "done"
    /\ Len(inv[i].flat) >= 2
    /\ ~Unresolvable(inv[i].flat[1])
    /\ Unresolvable(inv[i].flat[2])
    /\ inv[i].requestData = Null
    /\ inv[i].remoteCalls = 0

NetworkIds == {NetworkMap[n] : n \in DOMAIN NetworkMap}

\* C3: when the resolved network of a contract, lowercased, is absent from
\* the network identifier table, filterContracts returns no request, and no
\* entry of a request carries a key that is not an identifier of the table.
C3_UnknownNetworkAborts ==
  \A i \in Invocations :
    inv[i].pc \in FilteredPcs
    => /\ (\E k \in 1..Len(inv[i].resolved) :
             /\ inv[i].resolved[k] # Undefined
             /\ ToLowerCase(inv[i].resolved[k]) \notin DOMAIN NetworkMap)
          => inv[i].requestData = Null
       /\ inv[i].requestData # Null
          => \A a \in 1..Len(inv[i].requestData.contracts) :
               DOMAIN inv[i].requestData.contracts[a].networks \subseteq NetworkIds

\* C4: the network resolved for a contract is the argument when the argument
\* is set and is not "hardhat", and the contract's own network otherwise; it
\* is undefined exactly when the contract declares none and the argument is
\* unset or "hardhat".
C4_NetworkFallbackChain ==
  \A i \in Invocations :
    inv[i].pc \in FilteredPcs
    => /\ inv[i].flat # <<>> => inv[i].resolved # <<>>
       /\ \A k \in 1..Len(inv[i].resolved) :
            LET contract == inv[i].flat[k]
            IN  /\ inv[i].resolved[k] =
                     IF ArgumentSet /\ hardhatNetwork # "hardhat"
                     THEN hardhatNetwork ELSE contract.network
                /\ inv[i].resolved[k] = Undefined
                     <=> /\ contract.network = Undefined
                         /\ ~ArgumentSet \/ hardhatNetwork = "hardhat"

\* Under the "hardhat" sentinel the contract's own network was taken, and
\* for a contract without one the resolution failed.
C4_Witness ==
  \E i \in Invocations :
    /\ inv[i].pc \in FilteredPcs
    /\ hardhatNetwork = "hardhat"
    /\ Len(inv[i].resolved) = 2
    /\ inv[i].resolved[1] = "Ropsten"
    /\ inv[i].resolved[2] = Undefined

\* C5: a finished push with project or username missing has called no
\* remote endpoint and has logged exactly one line.
C5_PushMissingConfigOneLog ==
  \A i \in Invocations :
    (/\ inv[i].op = "push"
     /\ inv[i].pc = "done"
     /\ project = Undefined \/ username = Undefined)
    => /\ inv[i].remoteCalls = 0
       /\ Len(inv[i].logs) = 1

\* C6: an invocation calls the remote service at most once and never throws;
\* when the call failed it has logged the error's message and returned.
C6_TransportFailureContained ==
  \A i \in Invocations :
    /\ inv[i].remoteCalls <= 1
    /\ inv[i].outcome # "threw"
    /\ inv[i].remote = "failed"
       => /\ inv[i].pc = "done"
          /\ inv[i].outcome = "returned"
          /\ inv[i].remoteCalls = 1
          /\ inv[i].logs = <<ErrMessage>>

\* A verify and a push whose remote call failed.
C6_Witness ==
  \E i, j \in Invocations :
    /\ inv[i].op = "verify" /\ inv[i].remote = "failed" /\ inv[i].pc = "done"
    /\ inv[j].op = "push" /\ inv[j].remote = "failed" /\ inv[j].pc = "done"

\* The bound on the steps of a walk over the graph g: one step per call, and
\* per visited node one step per import and one to return.
StepBound(g) ==
  LET RECURSIVE Edges(_)
      Edges(k) == IF k = 0 THEN 0
                  ELSE Cardinality(g[ResolvedFiles[k]]) + Edges(k - 1)
  IN  2 * Edges(Len(ResolvedFiles)) + Len(ResolvedFiles) + 1

\* C7: a walk visits every node at most once and ends: its steps are bounded
\* by the size of the graph and it is never stuck before it has returned.
C7_VisitsOnceAndTerminates ==
  /\ \A p \in Files : walk.visits[p] <= 1
  /\ walk.steps <= StepBound(imports)
  /\ Len(walk.stack) <= Cardinality(Files) + 1
  /\ walk.stack # <<>> => ENABLED ResolveAdvance
  /\ walk.calls > 0 /\ walk.stack = <<>>
     => \E p \in Files :
          {q \in Files : walk.visits[q] = 1} = Reach(imports, {p})

\* A returned walk over a graph with an import cycle that reached every file,
\* one of them by two edges.
C7_Witness ==
  /\ walk.calls > 0
  /\ walk.stack = <<>>
  /\ \A p \in Files : walk.visits[p] = 1
  /\ walk.calls > Cardinality(Files) + 1
  /\ \E p, q \in Files : p # q /\ q \in imports[p] /\ p \in imports[q]

\* C8: the paths of the metadata are the files reachable along the imports
\* from the resolved files whose short name is requested, each held once.
C8_SourcesAreTheClosure ==
  \A i \in Invocations :
    inv[i].pc \in AssembledPcs
    => /\ Paths(inv[i].metadata) = Reach(imports, MatchedFiles(inv[i].flat))
       /\ Len(inv[i].metadata) = Cardinality(Paths(inv[i].metadata))
       /\ \A k \in 1..Len(inv[i].metadata) :
            inv[i].metadata[k].content = RawContent(inv[i].metadata[k].path)

\* Two requested contracts of different names import one library file, which
\* is not imported by name and is held once.
C8_Witness ==
  \E i \in Invocations :
    /\ inv[i].pc \in AssembledPcs
    /\ \E a, b, lib \in Files :
         /\ a # b /\ a # lib /\ b # lib
         /\ ShortName(a) # ShortName(b)
         /\ {ShortName(a), ShortName(b)} \subseteq Requested(inv[i].flat)
         /\ lib \in imports[a] /\ lib \in imports[b]
         /\ imports[lib] = {a}
         /\ Cardinality({k \in 1..Len(inv[i].metadata) :
                           inv[i].metadata[k].path = lib}) = 1

C10_NetworksAttachedOnce ==
  \A i \in Invocations :
    (inv[i].pc \in FilteredPcs /\ inv[i].requestData # Null)
    => LET cs == inv[i].requestData.contracts
           flat == inv[i].flat
       IN  \A e \in 1..Len(cs) :
             LET name == cs[e].contractName
                 first == \A m \in 1..(e - 1) : cs[m].contractName # name
                 reqs == {k \in 1..Len(flat) : flat[k].name = name}
                 last == CHOOSE k \in reqs : \A m \in reqs : m <= k
             IN  /\ Cardinality(DOMAIN cs[e].networks) <= 1
                 /\ IF first /\ reqs # {}
                    THEN cs[e].networks =
                           (NetworkKey(ToLowerCase(inv[i].resolved[last]))
                              :> [address |-> flat[last].address])
                    ELSE cs[e].networks = NoNetworks

\* One name requested twice with two networks, and two entries of that name.
C10_Witness ==
  \E i \in Invocations :
    /\ inv[i].pc \in FilteredPcs
    /\ inv[i].requestData # Null
    /\ Len(inv[i].flat) = 2
    /\ inv[i].flat[1].name = inv[i].flat[2].name
    /\ NetworkKey(ToLowerCase(inv[i].resolved[1]))
         # NetworkKey(ToLowerCase(inv[i].resolved[2]))
    /\ LET cs == inv[i].requestData.contracts
       IN  \E a, b \in 1..Len(cs) :
             /\ a < b
             /\ cs[a].contractName = inv[i].flat[1].name
             /\ cs[b].contractName = inv[i].flat[1].name
             /\ cs[a].networks # NoNetworks
             /\ cs[b].networks = NoNetworks

====
